---- MODULE Spec2Model ----
(***************************************************************************)
(* Conway's Game of Life on a bounded grid (src/main.rs): the World and    *)
(* Cell types, World::new, World::tick, World::draw_world and the main     *)
(* loop that drives them.  Vec<Vec<Cell>> is a function from 0..n-1; the   *)
(* String that draw_world returns is a sequence of one-character strings.  *)
(***************************************************************************)
EXTENDS Integers, Sequences, FiniteSets

\* ------------------------------------------------------------------ bounds
\* Largest width or height a world is given.
MaxDim == 5
\* Worlds of at most this many cells are seeded with every possible draw;
\* larger ones with the draws of PatternDraws.
MaxArea == 9
\* World::tick is called while world.frames is below this.
MaxFrames == 2
\* The frame delay is raised while it is below this many steps of 10 ms.
MaxDelaySteps == 3
\* Largest integer typed at the size prompt.
MaxAsk == 3

\* --------------------------------------------------------------- variables
VARIABLES
    world_size,         \* main: world_size
    world,              \* main: world
    milliseconds,       \* main: milliseconds
    sleep_duration,     \* main: sleep_duration, in milliseconds
    loop_action,        \* main: loop_action
    pc,                 \* the statement of main (or of tick) that runs next
    axis,               \* ask_for_world_size: i
    coordinate_values,  \* ask_for_world_size: coordinate_values
    tick_x,             \* tick: x of the evaluation loop
    tick_y,             \* tick: y of the evaluation loop
    new_states,         \* tick: new_states
    did_change,         \* tick: did_change
    seed_cells,         \* history: world.cells as World::new built them
    pre_cells,          \* history: world.cells when the current/last pass began
    ticks               \* history: tick calls completed on the current world

vars == <<world_size, world, milliseconds, sleep_duration, loop_action, pc,
          axis, coordinate_values, tick_x, tick_y, new_states, did_change,
          seed_cells, pre_cells, ticks>>

\* ------------------------------------------------------------------ Vector
Vector(vx, vy) == [x |-> vx, y |-> vy]

\* out_of_bounds with > where the code has >= (the far edge is let through).
out_of_bounds_off_by_one(self, min, max) ==
    self.x < min.x \/ self.y < min.y \/ self.x > max.x \/ self.y > max.y

\* out_of_bounds without the comparison against min.
out_of_bounds_no_min(self, min, max) ==
    self.x >= max.x \/ self.y >= max.y

out_of_bounds(self, min, max) ==
    self.x < min.x \/ self.y < min.y \/ self.x >= max.x \/ self.y >= max.y

WORLD_MIN == Vector(0, 0)

\* ------------------------------------------------------------------- Cell
\* cells[x][y] exists (an index outside the Vec panics; a negative i32 cast
\* to usize is far outside it).
Indexable(cells, ix, iy) ==
    /\ ix \in DOMAIN cells
    /\ iy \in DOMAIN cells[ix]

\* The (x, y) pairs of the two nested loops -1..=1, in the loops' order.
Offsets ==
    << <<-1, -1>>, <<-1, 0>>, <<-1, 1>>,
       << 0, -1>>, << 0, 0>>, << 0, 1>>,
       << 1, -1>>, << 1, 0>>, << 1, 1>> >>

\* The lookup_coordinate values that reach the index expression: not the
\* cell itself, not out of bounds.
LookupCoordinates(cell, w) ==
    LET candidate(i) ==
            [off |-> Offsets[i],
             at  |-> Vector(cell.coordinate.x + Offsets[i][1],
                            cell.coordinate.y + Offsets[i][2])]
        all == [i \in 1..Len(Offsets) |-> candidate(i)]
        kept(c) == /\ ~(c.off[1] = 0 /\ c.off[2] = 0)
                   /\ ~out_of_bounds(c.at, WORLD_MIN, w.size)
        sel == SelectSeq(all, kept)
    IN  [i \in 1..Len(sel) |-> sel[i].at]

\* Some lookup indexes world.cells outside the Vec.
LookupPanics(cell, w) ==
    LET lk == LookupCoordinates(cell, w)
    IN  \E i \in 1..Len(lk) : ~Indexable(w.cells, lk[i].x, lk[i].y)

living_neighbours(cell, w) ==
    LET lk == LookupCoordinates(cell, w)
        alive(c) == /\ Indexable(w.cells, c.x, c.y)
                    /\ w.cells[c.x][c.y].alive
    IN  Len(SelectSeq(lk, alive))

\* The match without its (false, 3) arm.
NextStateMatchNoBirth(alive, n) ==
    \/ alive /\ n = 2
    \/ alive /\ n = 3

\* The match without its (true, 3) arm.
NextStateMatchNoSurvival3(alive, n) ==
    \/ alive /\ n = 2
    \/ ~alive /\ n = 3

\* The match without its (true, 2) arm.
NextStateMatchNoSurvival2(alive, n) ==
    \/ alive /\ n = 3
    \/ ~alive /\ n = 3

\* match (self.alive, living_neighbours)
NextStateMatch(alive, n) ==
    \/ alive /\ n = 2
    \/ alive /\ n = 3
    \/ ~alive /\ n = 3

determine_next_state(cell, w) ==
    NextStateMatch(cell.alive, living_neighbours(cell, w))

\* ------------------------------------------------------------------ World
\* World::new building at least one column and one row whatever the size.
WorldNewClamped(size, live) ==
    [frames  |-> 0,
     cells   |-> [cx \in 0..((IF size.x < 1 THEN 1 ELSE size.x) - 1) |->
                    [cy \in 0..((IF size.y < 1 THEN 1 ELSE size.y) - 1) |->
                        [alive      |-> <<cx, cy>> \in live,
                         coordinate |-> Vector(cx, cy)]]],
     size    |-> Vector(size.x, size.y),
     changed |-> FALSE]

\* World::new storing each cell's coordinate with x and y exchanged.
WorldNewTransposed(size, live) ==
    [frames  |-> 0,
     cells   |-> [cx \in 0..(size.x - 1) |->
                    [cy \in 0..(size.y - 1) |->
                        [alive      |-> <<cx, cy>> \in live,
                         coordinate |-> Vector(cy, cx)]]],
     size    |-> Vector(size.x, size.y),
     changed |-> FALSE]

\* World::new; `live` is the set of <<x, y>> whose draw fell below
\* life_chance.
WorldNew(size, live) ==
    [frames  |-> 0,
     cells   |-> [cx \in 0..(size.x - 1) |->
                    [cy \in 0..(size.y - 1) |->
                        [alive      |-> <<cx, cy>> \in live,
                         coordinate |-> Vector(cx, cy)]]],
     size    |-> Vector(size.x, size.y),
     changed |-> FALSE]

\* The end of tick with changed set to true whatever did_change is.
TickEndAlwaysChanged(w, changed) ==
    [w EXCEPT !.frames = @ + 1, !.changed = TRUE]

\* The end of tick with frames counted only when a cell changed.
TickEndCountsChanges(w, changed) ==
    [w EXCEPT !.frames = IF changed THEN @ + 1 ELSE @, !.changed = changed]

\* The end of tick: self.frames += 1; self.changed = did_change.
TickEnd(w, changed) ==
    [w EXCEPT !.frames = @ + 1, !.changed = changed]

\* The commit write cutting the column off after the cell it writes.
CommitOneTruncates(w, entry) ==
    [w EXCEPT !.cells[entry[1]] =
        [cy \in 0..entry[2] |->
            IF cy = entry[2] THEN [@[cy] EXCEPT !.alive = entry[3]]
            ELSE @[cy]]]

\* One iteration of the commit loop: self.cells[x][y].alive = state.
CommitOne(w, entry) ==
    [w EXCEPT !.cells[entry[1]][entry[2]].alive = entry[3]]

Glyph(cell) == IF cell.alive THEN "#" ELSE " "

RECURSIVE DrawRow(_, _, _)
DrawRow(w, ry, rx) ==
    IF rx >= w.size.x THEN <<>>
    ELSE <<Glyph(w.cells[rx][ry])>> \o DrawRow(w, ry, rx + 1)

RECURSIVE DrawRows(_, _)
DrawRows(w, ry) ==
    IF ry >= w.size.y THEN <<>>
    ELSE DrawRow(w, ry, 0) \o <<"\n">> \o DrawRows(w, ry + 1)

\* draw_world with its loops exchanged: x outside, y inside.
RECURSIVE DrawColumn(_, _, _)
DrawColumn(w, rx, ry) ==
    IF ry >= w.size.y THEN <<>>
    ELSE <<Glyph(w.cells[rx][ry])>> \o DrawColumn(w, rx, ry + 1)

RECURSIVE DrawColumns(_, _)
DrawColumns(w, rx) ==
    IF rx >= w.size.x THEN <<>>
    ELSE DrawColumn(w, rx, 0) \o <<"\n">> \o DrawColumns(w, rx + 1)

draw_world_column_major(w) == DrawColumns(w, 0)

draw_world(w) == DrawRows(w, 0)

\* draw_world indexes self.cells outside the Vec.
DrawPanics(w) ==
    \E ry \in 0..(w.size.y - 1) : \E rx \in 0..(w.size.x - 1) :
        ~Indexable(w.cells, rx, ry)

\* ------------------------------------------------------- the random draws
Positions(size) == (0..(size.x - 1)) \X (0..(size.y - 1))

BlockAt(bx, by) ==
    {<<bx, by>>, <<bx + 1, by>>, <<bx, by + 1>>, <<bx + 1, by + 1>>}

HorizontalBlinker(cx, cy) == {<<cx - 1, cy>>, <<cx, cy>>, <<cx + 1, cy>>}

VerticalBlinker(cx, cy) == {<<cx, cy - 1>>, <<cx, cy>>, <<cx, cy + 1>>}

\* The one or two middle indices of 0..n-1.
Centres(n) == {(n - 1) \div 2, n \div 2}

\* Draws for the worlds too large to enumerate: a 2x2 block with dead cells
\* all around it, a centred horizontal blinker, nothing alive, all alive.
PatternDraws(size) ==
    {BlockAt(bx, by) : bx \in 1..(size.x - 3), by \in 1..(size.y - 3)}
    \cup (IF size.x >= 5 /\ size.y >= 5
          THEN {HorizontalBlinker(cx, cy) :
                    cx \in Centres(size.x), cy \in Centres(size.y)}
          ELSE {})
    \cup {{}, Positions(size)}

\* What rand::thread_rng().gen_range(0.0..1.0) < life_chance may come to
\* over the cells of a world of this size.
Draws(size) ==
    IF size.x * size.y <= MaxArea \/ size.x <= 0 \/ size.y <= 0
    THEN SUBSET Positions(size)
    ELSE PatternDraws(size)

\* -------------------------------------------------------------- the state
\* `let mut world` before World::new has run.
NoWorld ==
    [frames |-> 0, cells |-> <<>>, size |-> Vector(0, 0), changed |-> FALSE]

\* The lines ask_for_world_size may read: one that does not parse as an
\* i32, or an integer.
NotANumber == [parsed |-> FALSE, value |-> 0]

IntLine(v) == [parsed |-> TRUE, value |-> v]

AskLines == {NotANumber} \cup {IntLine(v) : v \in (0 - 1)..MaxAsk}

\* Sizes World::new is called with when called directly.
EngineSizes == [x : (0 - 1)..MaxDim, y : (0 - 1)..MaxDim]

TickIdle ==
    /\ tick_x = 0
    /\ tick_y = 0
    /\ new_states = <<>>
    /\ did_change = FALSE

\* main up to its first statement.
Init ==
    /\ world_size = Vector(0, 0)
    /\ world = NoWorld
    /\ milliseconds = 10
    /\ sleep_duration = 10
    /\ loop_action = "Continue"
    /\ pc = "ask"
    /\ axis = 0
    /\ coordinate_values = <<0, 0>>
    /\ TickIdle
    /\ seed_cells = <<>>
    /\ pre_cells = <<>>
    /\ ticks = 0

\* A caller about to construct a World of any size, the prompt bypassed.
InitEngine ==
    /\ world_size \in EngineSizes
    /\ world = NoWorld
    /\ milliseconds = 10
    /\ sleep_duration = 10
    /\ loop_action = "Continue"
    /\ pc = "new"
    /\ axis = 2
    /\ coordinate_values = <<world_size.x, world_size.y>>
    /\ TickIdle
    /\ seed_cells = <<>>
    /\ pre_cells = <<>>
    /\ ticks = 0

\* ------------------------------------------------------ ask_for_world_size
\* The prompt asking again only below 1 (value < 1 for value <= 1).
AskAxisAcceptsOne ==
    /\ pc = "ask"
    /\ axis < 2
    /\ \E line \in AskLines :
          IF line.parsed /\ ~(line.value < 1)
          THEN /\ coordinate_values' =
                     [coordinate_values EXCEPT ![axis + 1] = line.value]
               /\ axis' = axis + 1
          ELSE UNCHANGED <<coordinate_values, axis>>
    /\ UNCHANGED <<sleep_duration, loop_action, world_size, world,
                   milliseconds, pc, tick_x, tick_y, new_states, did_change,
                   seed_cells, pre_cells, ticks>>

\* One pass of the inner loop for axis i: read a line, parse it, keep the
\* value if it is above 1, else ask again.
AskAxis ==
    /\ pc = "ask"
    /\ axis < 2
    /\ \E line \in AskLines :
          IF line.parsed /\ ~(line.value <= 1)
          THEN /\ coordinate_values' =
                     [coordinate_values EXCEPT ![axis + 1] = line.value]
               /\ axis' = axis + 1
          ELSE UNCHANGED <<coordinate_values, axis>>
    /\ UNCHANGED <<sleep_duration, loop_action, world_size, world,
                   milliseconds, pc, tick_x, tick_y, new_states, did_change,
                   seed_cells, pre_cells, ticks>>

\* Both axes read: world_size is returned to main.
AskDone ==
    /\ pc = "ask"
    /\ axis = 2
    /\ world_size' = Vector(coordinate_values[1], coordinate_values[2])
    /\ pc' = "new"
    /\ UNCHANGED <<sleep_duration, loop_action, world, milliseconds, axis,
                   coordinate_values, tick_x, tick_y, new_states, did_change,
                   seed_cells, pre_cells, ticks>>

\* -------------------------------------------------------------- World::new
\* let mut world = World::new(&world_size, 0.5);
Construct ==
    /\ pc = "new"
    /\ \E live \in Draws(world_size) :
          /\ world' = WorldNew(world_size, live)
          /\ seed_cells' = world'.cells
          /\ pre_cells' = world'.cells
    /\ ticks' = 0
    /\ pc' = "tick"
    /\ UNCHANGED <<sleep_duration, loop_action, world_size, milliseconds,
                   axis, coordinate_values, tick_x, tick_y, new_states,
                   did_change>>

\* ------------------------------------------------------------- World::tick
\* world.tick() is entered: new_states is a new Vec, the loops start.
TickBegin ==
    /\ pc = "tick"
    /\ world.frames < MaxFrames
    /\ new_states' = <<>>
    /\ tick_x' = 0
    /\ tick_y' = 0
    /\ pre_cells' = world.cells
    /\ pc' = "eval"
    /\ UNCHANGED <<sleep_duration, loop_action, world_size, world,
                   milliseconds, axis, coordinate_values, did_change,
                   seed_cells, ticks>>

\* The body of the inner loop writing the next state into the cell at once,
\* as well as buffering it.
TickEvalCellInPlace ==
    /\ pc = "eval"
    /\ tick_x < world.size.x
    /\ tick_y < world.size.y
    /\ IF \/ ~Indexable(world.cells, tick_x, tick_y)
          \/ LookupPanics(world.cells[tick_x][tick_y], world)
       THEN /\ pc' = "panicked"
            /\ UNCHANGED <<world, new_states, tick_y>>
       ELSE LET cell == world.cells[tick_x][tick_y]
                next_state == determine_next_state(cell, world)
            IN  /\ new_states' =
                      IF next_state = cell.alive
                      THEN new_states
                      ELSE Append(new_states, <<tick_x, tick_y, next_state>>)
                /\ world' = CommitOne(world, <<tick_x, tick_y, next_state>>)
                /\ tick_y' = tick_y + 1
                /\ pc' = "eval"
    /\ UNCHANGED <<sleep_duration, loop_action, world_size, milliseconds,
                   axis, coordinate_values, tick_x, did_change, seed_cells,
                   pre_cells, ticks>>

\* The body of the inner loop for the cell at (tick_x, tick_y).
TickEvalCell ==
    /\ pc = "eval"
    /\ tick_x < world.size.x
    /\ tick_y < world.size.y
    /\ IF \/ ~Indexable(world.cells, tick_x, tick_y)
          \/ LookupPanics(world.cells[tick_x][tick_y], world)
       THEN /\ pc' = "panicked"
            /\ UNCHANGED <<new_states, tick_y>>
       ELSE LET cell == world.cells[tick_x][tick_y]
                next_state == determine_next_state(cell, world)
            IN  /\ new_states' =
                      IF next_state = cell.alive
                      THEN new_states
                      ELSE Append(new_states, <<tick_x, tick_y, next_state>>)
                /\ tick_y' = tick_y + 1
                /\ pc' = "eval"
    /\ UNCHANGED <<sleep_duration, loop_action, world_size, world,
                   milliseconds, axis, coordinate_values, tick_x, did_change,
                   seed_cells, pre_cells, ticks>>

\* The inner loop is exhausted: the outer loop takes the next x.
TickNextColumn ==
    /\ pc = "eval"
    /\ tick_x < world.size.x
    /\ tick_y >= world.size.y
    /\ tick_x' = tick_x + 1
    /\ tick_y' = 0
    /\ UNCHANGED <<sleep_duration, loop_action, world_size, world,
                   milliseconds, pc, axis, coordinate_values, new_states,
                   did_change, seed_cells, pre_cells, ticks>>

\* did_change asking for more than one buffered write.
TickEvalDoneNeedsTwo ==
    /\ pc = "eval"
    /\ tick_x >= world.size.x
    /\ did_change' = (Len(new_states) > 1)
    /\ pc' = "commit"
    /\ UNCHANGED <<sleep_duration, loop_action, world_size, world,
                   milliseconds, axis, coordinate_values, tick_x, tick_y,
                   new_states, seed_cells, pre_cells, ticks>>

\* The outer loop is exhausted: let did_change = new_states.len() > 0.
TickEvalDone ==
    /\ pc = "eval"
    /\ tick_x >= world.size.x
    /\ did_change' = (Len(new_states) > 0)
    /\ pc' = "commit"
    /\ UNCHANGED <<sleep_duration, loop_action, world_size, world,
                   milliseconds, axis, coordinate_values, tick_x, tick_y,
                   new_states, seed_cells, pre_cells, ticks>>

\* The commit loop writing, instead of the buffered state, the state it
\* computes for the cell from the grid as the loop has left it so far.
TickCommitRecomputes ==
    /\ pc = "commit"
    /\ new_states /= <<>>
    /\ LET entry == Head(new_states)
       IN  IF \/ ~Indexable(world.cells, entry[1], entry[2])
              \/ LookupPanics(world.cells[entry[1]][entry[2]], world)
           THEN /\ pc' = "panicked"
                /\ UNCHANGED <<world, new_states>>
           ELSE /\ world' = CommitOne(world,
                      <<entry[1], entry[2],
                        determine_next_state(
                            world.cells[entry[1]][entry[2]], world)>>)
                /\ new_states' = Tail(new_states)
                /\ pc' = "commit"
    /\ UNCHANGED <<sleep_duration, loop_action, world_size, milliseconds,
                   axis, coordinate_values, tick_x, tick_y, did_change,
                   seed_cells, pre_cells, ticks>>

\* One iteration of for (x, y, state) in new_states.
TickCommit ==
    /\ pc = "commit"
    /\ new_states /= <<>>
    /\ LET entry == Head(new_states)
       IN  IF ~Indexable(world.cells, entry[1], entry[2])
           THEN /\ pc' = "panicked"
                /\ UNCHANGED <<world, new_states>>
           ELSE /\ world' = CommitOne(world, entry)
                /\ new_states' = Tail(new_states)
                /\ pc' = "commit"
    /\ UNCHANGED <<sleep_duration, loop_action, world_size, milliseconds,
                   axis, coordinate_values, tick_x, tick_y, did_change,
                   seed_cells, pre_cells, ticks>>

\* tick returning while buffered writes are still to be done.
TickFinishMidCommit ==
    /\ pc = "commit"
    /\ world' = TickEnd(world, did_change)
    /\ ticks' = ticks + 1
    /\ tick_x' = 0
    /\ tick_y' = 0
    /\ did_change' = FALSE
    /\ new_states' = <<>>
    /\ pc' = "draw"
    /\ UNCHANGED <<sleep_duration, loop_action, world_size, milliseconds,
                   axis, coordinate_values, seed_cells, pre_cells>>

\* The commit loop is exhausted: frames and changed are set, tick returns.
TickFinish ==
    /\ pc = "commit"
    /\ new_states = <<>>
    /\ world' = TickEnd(world, did_change)
    /\ ticks' = ticks + 1
    /\ tick_x' = 0
    /\ tick_y' = 0
    /\ did_change' = FALSE
    /\ pc' = "draw"
    /\ UNCHANGED <<sleep_duration, loop_action, world_size, milliseconds,
                   axis, coordinate_values, new_states, seed_cells,
                   pre_cells>>

\* ------------------------------------------------------------------ draw_ui
DrawUi ==
    /\ pc = "draw"
    /\ pc' = IF DrawPanics(world) THEN "panicked" ELSE "action"
    /\ UNCHANGED <<sleep_duration, loop_action, world_size, world,
                   milliseconds, axis, coordinate_values, tick_x, tick_y,
                   new_states, did_change, seed_cells, pre_cells, ticks>>

\* ------------------------------------------------------ request_loop_action
\* What event::read may return: a key event (a press or not) with its code,
\* or an event that is not a key event.
KeyCodes == {"q", "r", "-", "+", "=", "x", "Esc"}

Events ==
    [key : {TRUE}, press : BOOLEAN, code : KeyCodes]
    \cup {[key |-> FALSE, press |-> FALSE, code |-> "x"]}

\* The LoopAction request_loop_action returns when event::read gave `ev`.
LoopActionFor(ev) ==
    IF ~ev.key THEN "Continue"
    ELSE IF ~ev.press THEN "Continue"
    ELSE CASE ev.code = "q" -> "Quit"
           [] ev.code = "r" -> "Restart"
           [] ev.code = "-" -> "SlowDown"
           [] ev.code = "+" -> "SpeedUp"
           [] ev.code = "=" -> "SpeedUp"
           [] OTHER -> "Continue"

\* event::poll found nothing within its millisecond.
PollTimeout ==
    /\ pc = "action"
    /\ loop_action' = "Continue"
    /\ pc' = "match"
    /\ UNCHANGED <<sleep_duration, world_size, world, milliseconds, axis,
                   coordinate_values, tick_x, tick_y, new_states, did_change,
                   seed_cells, pre_cells, ticks>>

\* event::poll found an event and event::read returned it.
PollEvent ==
    /\ pc = "action"
    /\ \E ev \in Events :
          /\ LoopActionFor(ev) = "SlowDown" =>
                milliseconds < 10 * MaxDelaySteps
          /\ loop_action' = LoopActionFor(ev)
    /\ pc' = "match"
    /\ UNCHANGED <<sleep_duration, world_size, world, milliseconds, axis,
                   coordinate_values, tick_x, tick_y, new_states, did_change,
                   seed_cells, pre_cells, ticks>>

\* ------------------------------------------------- main: match loop_action
\* a - b on u64 goes below 0: a panic in a debug build, a value just under
\* 2^64 in a release build.
U64SubUnderflows(a, b) == a < b

\* std::cmp::max
max(a, b) == IF a > b THEN a ELSE b

\* The loop ending as soon as a tick changed nothing.
ActContinueStopsWhenStable ==
    /\ pc = "match"
    /\ loop_action = "Continue"
    /\ pc' = IF world.changed THEN "tick" ELSE "done"
    /\ UNCHANGED <<sleep_duration, loop_action, world_size, world,
                   milliseconds, axis, coordinate_values, tick_x, tick_y,
                   new_states, did_change, seed_cells, pre_cells, ticks>>

\* LoopAction::Continue => {}, then thread::sleep(sleep_duration).
ActContinue ==
    /\ pc = "match"
    /\ loop_action = "Continue"
    /\ pc' = "tick"
    /\ UNCHANGED <<sleep_duration, loop_action, world_size, world,
                   milliseconds, axis, coordinate_values, tick_x, tick_y,
                   new_states, did_change, seed_cells, pre_cells, ticks>>

ActSlowDown ==
    /\ pc = "match"
    /\ loop_action = "SlowDown"
    /\ milliseconds' = milliseconds + 10
    /\ sleep_duration' = milliseconds'
    /\ pc' = "tick"
    /\ UNCHANGED <<loop_action, world_size, world, axis, coordinate_values,
                   tick_x, tick_y, new_states, did_change, seed_cells,
                   pre_cells, ticks>>

\* SpeedUp without the max(10, ..) around the subtraction.
ActSpeedUpNoFloor ==
    /\ pc = "match"
    /\ loop_action = "SpeedUp"
    /\ IF U64SubUnderflows(milliseconds, 10)
       THEN /\ pc' = "underflow"
            /\ UNCHANGED <<milliseconds, sleep_duration>>
       ELSE /\ milliseconds' = milliseconds - 10
            /\ sleep_duration' = milliseconds'
            /\ pc' = "tick"
    /\ UNCHANGED <<loop_action, world_size, world, axis, coordinate_values,
                   tick_x, tick_y, new_states, did_change, seed_cells,
                   pre_cells, ticks>>

ActSpeedUp ==
    /\ pc = "match"
    /\ loop_action = "SpeedUp"
    /\ IF U64SubUnderflows(milliseconds, 10)
       THEN /\ pc' = "underflow"
            /\ UNCHANGED <<milliseconds, sleep_duration>>
       ELSE /\ milliseconds' = max(10, milliseconds - 10)
            /\ sleep_duration' = milliseconds'
            /\ pc' = "tick"
    /\ UNCHANGED <<loop_action, world_size, world, axis, coordinate_values,
                   tick_x, tick_y, new_states, did_change, seed_cells,
                   pre_cells, ticks>>

\* LoopAction::Quit => break, then the terminal is restored and main returns.
ActQuit ==
    /\ pc = "match"
    /\ loop_action = "Quit"
    /\ pc' = "done"
    /\ UNCHANGED <<sleep_duration, loop_action, world_size, world,
                   milliseconds, axis, coordinate_values, tick_x, tick_y,
                   new_states, did_change, seed_cells, pre_cells, ticks>>

\* Restart building the new world but keeping the old frame count.
ActRestartKeepsFrames ==
    /\ pc = "match"
    /\ loop_action = "Restart"
    /\ \E live \in Draws(world_size) :
          /\ world' = [WorldNew(world_size, live)
                          EXCEPT !.frames = world.frames]
          /\ seed_cells' = world'.cells
          /\ pre_cells' = world'.cells
    /\ ticks' = 0
    /\ pc' = "tick"
    /\ UNCHANGED <<sleep_duration, loop_action, world_size, milliseconds,
                   axis, coordinate_values, tick_x, tick_y, new_states,
                   did_change>>

\* LoopAction::Restart => world = World::new(&world_size, 0.5).
ActRestart ==
    /\ pc = "match"
    /\ loop_action = "Restart"
    /\ \E live \in Draws(world_size) :
          /\ world' = WorldNew(world_size, live)
          /\ seed_cells' = world'.cells
          /\ pre_cells' = world'.cells
    /\ ticks' = 0
    /\ pc' = "tick"
    /\ UNCHANGED <<sleep_duration, loop_action, world_size, milliseconds,
                   axis, coordinate_values, tick_x, tick_y, new_states,
                   did_change>>

\* ---------------------------------------------------------- specifications
Tick ==
    \/ TickBegin
    \/ TickEvalCell
    \/ TickNextColumn
    \/ TickEvalDone
    \/ TickCommit
    \/ TickFinish

\* The whole program.
Next ==
    \/ AskAxis
    \/ AskDone
    \/ Construct
    \/ Tick
    \/ DrawUi
    \/ PollTimeout
    \/ PollEvent
    \/ ActContinue
    \/ ActSlowDown
    \/ ActSpeedUp
    \/ ActQuit
    \/ ActRestart

Spec == Init /\ [][Next]_vars

\* The engine alone: a World of any size is constructed, then ticked and
\* drawn in turn, no key ever pressed.
NextEngine ==
    \/ Construct
    \/ Tick
    \/ DrawUi
    \/ PollTimeout
    \/ ActContinue

SpecEngine == InitEngine /\ [][NextEngine]_vars

\* ------------------------------------------- the Life rule, stated directly
\* The cells of a grid of this size that lie in the Moore neighbourhood of
\* (px, py).
MooreInGrid(size, px, py) ==
    {q \in Positions(size) :
        /\ q /= <<px, py>>
        /\ q[1] - px \in {-1, 0, 1}
        /\ q[2] - py \in {-1, 0, 1}}

LiveAround(cells, size, px, py) ==
    Cardinality({q \in MooreInGrid(size, px, py) : cells[q[1]][q[2]].alive})

LifeRule(alive, n) == IF alive THEN n \in {2, 3} ELSE n = 3

LiveSet(cells, size) == {q \in Positions(size) : cells[q[1]][q[2]].alive}

\* No pass is running and at least one has completed on this world.
AfterTick ==
    ticks > 0 /\ pc \in {"draw", "action", "match", "tick", "done"}

\* ------------------------------------------------------------------ claims
\* C1: while tick is still computing next states no cell has been written
\* (world.cells is as it was when the pass began), every buffered next state
\* is the Life rule applied to the grid as it was when the pass began, and
\* cells differ from that grid only once every cell has been evaluated.
C1_SynchronousUpdate ==
    /\ pc = "eval" => world.cells = pre_cells
    /\ pc \in {"eval", "commit"} =>
          \A i \in 1..Len(new_states) :
             LET e == new_states[i]
             IN  /\ Indexable(pre_cells, e[1], e[2])
                 /\ e[3] = LifeRule(pre_cells[e[1]][e[2]].alive,
                                    LiveAround(pre_cells, world.size,
                                               e[1], e[2]))
    /\ (pc \in {"eval", "commit"} /\ world.cells /= pre_cells) =>
          pc = "commit" /\ tick_x >= world.size.x

\* The cell about to be evaluated has a neighbour that was evaluated earlier
\* in this pass and whose new state is already buffered.
C1_Witness ==
    /\ pc = "eval"
    /\ tick_x < world.size.x
    /\ tick_y < world.size.y
    /\ world.cells = pre_cells
    /\ \E i \in 1..Len(new_states) :
          <<new_states[i][1], new_states[i][2]>>
              \in MooreInGrid(world.size, tick_x, tick_y)

\* C2: after a tick every cell is alive iff it was alive with 2 or 3 live
\* neighbours or dead with exactly 3, counted on the grid before the tick.
C2_TransitionRule ==
    AfterTick =>
        \A q \in Positions(world.size) :
            world.cells[q[1]][q[2]].alive
                = LifeRule(pre_cells[q[1]][q[2]].alive,
                           LiveAround(pre_cells, world.size, q[1], q[2]))

\* One tick in which a lonely live cell died, a crowded live cell died, a
\* dead cell with 3 live neighbours was born and a dead cell with 2 stayed
\* dead.
C2_Witness ==
    /\ AfterTick
    /\ \E q \in Positions(world.size) :
          /\ pre_cells[q[1]][q[2]].alive
          /\ LiveAround(pre_cells, world.size, q[1], q[2]) <= 1
          /\ ~world.cells[q[1]][q[2]].alive
    /\ \E q \in Positions(world.size) :
          /\ pre_cells[q[1]][q[2]].alive
          /\ LiveAround(pre_cells, world.size, q[1], q[2]) >= 4
          /\ ~world.cells[q[1]][q[2]].alive
    /\ \E q \in Positions(world.size) :
          /\ ~pre_cells[q[1]][q[2]].alive
          /\ LiveAround(pre_cells, world.size, q[1], q[2]) = 3
          /\ world.cells[q[1]][q[2]].alive
    /\ \E q \in Positions(world.size) :
          /\ ~pre_cells[q[1]][q[2]].alive
          /\ LiveAround(pre_cells, world.size, q[1], q[2]) = 2
          /\ ~world.cells[q[1]][q[2]].alive

\* A constructed world is held in `world`.
Constructed == pc \notin {"ask", "new"}

OnCorner(size, px, py) == px \in {0, size.x - 1} /\ py \in {0, size.y - 1}

OnEdge(size, px, py) == px \in {0, size.x - 1} \/ py \in {0, size.y - 1}

\* C3: whenever tick is about to evaluate a cell, the positions whose
\* liveness will be looked up are exactly the Moore neighbours inside
\* [0,width) x [0,height), each once, so the count is the number of live
\* cells among them: at most 3 positions for a corner cell and at most 5 for
\* an edge cell.
C3_BoundedNeighbourhood ==
    (pc = "eval" /\ tick_x < world.size.x /\ tick_y < world.size.y) =>
        LET cell == world.cells[tick_x][tick_y]
            lk == LookupCoordinates(cell, world)
            around == MooreInGrid(world.size, tick_x, tick_y)
        IN  /\ {<<lk[i].x, lk[i].y>> : i \in 1..Len(lk)} = around
            /\ Len(lk) = Cardinality(around)
            /\ living_neighbours(cell, world)
                   = LiveAround(world.cells, world.size, tick_x, tick_y)
            /\ OnCorner(world.size, tick_x, tick_y) => Len(lk) <= 3
            /\ OnEdge(world.size, tick_x, tick_y) => Len(lk) <= 5

\* The corner cell (0,0) of a world at least 3x3 is being evaluated, its 3
\* neighbours are alive and so are cells on the opposite edges.
C3_Witness ==
    /\ pc = "eval"
    /\ tick_x = 0
    /\ tick_y = 0
    /\ world.size.x >= 3
    /\ world.size.y >= 3
    /\ living_neighbours(world.cells[0][0], world) = 3
    /\ world.cells[world.size.x - 1][0].alive
    /\ world.cells[0][world.size.y - 1].alive
    /\ world.cells[world.size.x - 1][world.size.y - 1].alive

\* C4: after a tick, world.changed is true iff some cell's liveness differs
\* from what it was before the tick.
C4_ChangeReporting ==
    AfterTick => (world.changed <=> world.cells /= pre_cells)

\* A tick that changed exactly one cell, and reported it.
C4_Witness ==
    /\ AfterTick
    /\ world.changed
    /\ Cardinality({q \in Positions(world.size) :
           world.cells[q[1]][q[2]].alive /= pre_cells[q[1]][q[2]].alive}) = 1

\* C5: a new world has frames = 0; frames is the number of ticks completed
\* on the world; it changes only at the end of a tick, by exactly +1, or to 0
\* when a new world is constructed; so it never decreases on one world.
C5_GenerationCounter ==
    /\ [](Constructed => world.frames = ticks)
    /\ [][\/ world'.frames = world.frames
          \/ pc = "commit" /\ pc' = "draw"
                /\ world'.frames = world.frames + 1
          \/ pc \in {"new", "match"} /\ pc' = "tick"
                /\ world'.frames = 0]_vars

\* Two ticks have completed, the second changed no cell, and frames is 2.
C5_Witness ==
    /\ pc = "draw"
    /\ ticks = 2
    /\ world.frames = 2
    /\ ~world.changed
    /\ world.cells = pre_cells

\* World::new was given a width or a height that is not positive.
BadSize == world_size.x <= 0 \/ world_size.y <= 0

IsolatedBlock(cells, size) ==
    /\ size.x >= 4
    /\ size.y >= 4
    /\ \E bx \in 1..(size.x - 3) : \E by \in 1..(size.y - 3) :
          LiveSet(cells, size) = BlockAt(bx, by)

\* C7: a tick on a grid of at least 4x4 whose only live cells are one 2x2
\* block surrounded by dead cells leaves every cell as it was and sets
\* changed = false.
C7_StillLife ==
    (AfterTick /\ IsolatedBlock(pre_cells, world.size)) =>
        /\ world.cells = pre_cells
        /\ ~world.changed

\* A tick has completed on an isolated block.
C7_Witness ==
    /\ pc = "draw"
    /\ ticks = 1
    /\ IsolatedBlock(pre_cells, world.size)
    /\ IsolatedBlock(seed_cells, world.size)

\* No pass is running.
AtRest == pc \in {"draw", "action", "match", "tick", "done"}

\* C8: on a grid of at least 5x5 seeded with only a centred horizontal row
\* of three live cells, the first tick gives exactly the vertical column of
\* three about the same centre, the second exactly the original row, and
\* changed = true after each.
C8_Blinker ==
    \A cx \in Centres(world.size.x) : \A cy \in Centres(world.size.y) :
        ( /\ Constructed
          /\ AtRest
          /\ world.size.x >= 5
          /\ world.size.y >= 5
          /\ LiveSet(seed_cells, world.size) = HorizontalBlinker(cx, cy) )
        =>
        /\ ticks = 1 =>
              /\ LiveSet(world.cells, world.size) = VerticalBlinker(cx, cy)
              /\ world.changed
        /\ ticks = 2 =>
              /\ LiveSet(world.cells, world.size) = HorizontalBlinker(cx, cy)
              /\ world.cells = seed_cells
              /\ world.changed

\* Two ticks have completed on a centred blinker: it was vertical before the
\* second and is the seeded row again.
C8_Witness ==
    /\ pc = "draw"
    /\ ticks = 2
    /\ world.size.x >= 5
    /\ world.size.y >= 5
    /\ \E cx \in Centres(world.size.x) : \E cy \in Centres(world.size.y) :
          /\ LiveSet(seed_cells, world.size) = HorizontalBlinker(cx, cy)
          /\ LiveSet(pre_cells, world.size) = VerticalBlinker(cx, cy)
          /\ LiveSet(world.cells, world.size) = HorizontalBlinker(cx, cy)

NonNegative(n) == IF n < 0 THEN 0 ELSE n

\* C9: the text draw_world gives for any world, as constructed or as a tick
\* left it, is height rows, row y before row y+1, each of width glyphs in
\* the order x = 0..width-1 followed by a line break, the glyph for (x, y)
\* being '#' iff cells[x][y] is alive and ' ' otherwise.
C9_RenderFidelity ==
    (Constructed /\ AtRest) =>
        LET text == draw_world(world)
            width == NonNegative(world.size.x)
            height == NonNegative(world.size.y)
        IN  /\ Len(text) = height * (width + 1)
            /\ \A ry \in 0..(height - 1) :
                  /\ text[ry * (width + 1) + width + 1] = "\n"
                  /\ \A rx \in 0..(width - 1) :
                        text[ry * (width + 1) + rx + 1] =
                            IF world.cells[rx][ry].alive THEN "#" ELSE " "

\* A 2x3 world that is not its own transpose has been drawn.
C9_Witness ==
    /\ pc = "action"
    /\ world.size = Vector(2, 3)
    /\ world.cells[0][1].alive
    /\ ~world.cells[1][0].alive
    /\ world.cells[1][2].alive
    /\ draw_world(world)[4] = "#"

\* C10: tick and draw_world never index world.cells outside the Vec, on a
\* world of any size: not at the read of the cell being evaluated, not at a
\* neighbour lookup, not at a commit write, not when drawing.
C10_NoOutOfRangeAccess ==
    /\ pc /= "panicked"
    /\ (pc = "eval" /\ tick_x < world.size.x /\ tick_y < world.size.y) =>
          /\ Indexable(world.cells, tick_x, tick_y)
          /\ ~LookupPanics(world.cells[tick_x][tick_y], world)
    /\ (pc = "commit" /\ new_states /= <<>>) =>
          Indexable(world.cells, Head(new_states)[1], Head(new_states)[2])
    /\ pc \in {"draw", "action"} => ~DrawPanics(world)

\* A 1x1 world whose only cell was seeded alive has been ticked (the cell
\* died) and drawn.
C10_Witness ==
    /\ world.size = Vector(1, 1)
    /\ seed_cells[0][0].alive
    /\ ~world.cells[0][0].alive
    /\ pc = "action"
    /\ ticks = 1

\* C11: every world the program constructs, the first and every one built
\* on Restart, has width >= 2 and height >= 2: the size returned by the
\* prompt has both, and it is the size of every world.
C11_MinimumDimensions ==
    /\ pc = "new" => (world_size.x >= 2 /\ world_size.y >= 2)
    /\ Constructed =>
          /\ world_size.x >= 2
          /\ world_size.y >= 2
          /\ world.size = world_size
          /\ DOMAIN world.cells = 0..(world.size.x - 1)

\* A world of the smallest size, 2x2, built by a Restart.
C11_Witness ==
    /\ pc = "tick"
    /\ loop_action = "Restart"
    /\ ticks = 0
    /\ world.frames = 0
    /\ world.size = Vector(2, 2)

\* C12: after any number of ticks world.size is the size the world was
\* constructed with and the cell storage has the shape it was built with:
\* width columns of height cells, one liveness value per position.
C12_ConservationOfDimensions ==
    Constructed =>
        /\ world.size = world_size
        /\ DOMAIN world.cells = 0..(world.size.x - 1)
        /\ DOMAIN world.cells = DOMAIN seed_cells
        /\ \A cx \in DOMAIN world.cells :
              /\ DOMAIN world.cells[cx] = 0..(world.size.y - 1)
              /\ DOMAIN world.cells[cx] = DOMAIN seed_cells[cx]
              /\ \A cy \in DOMAIN world.cells[cx] :
                    world.cells[cx][cy].alive \in BOOLEAN

\* Two ticks have completed on a 3x2 world and its cells are no longer the
\* ones it was built with.
C12_Witness ==
    /\ pc = "match"
    /\ ticks = 2
    /\ world.size = Vector(3, 2)
    /\ world.cells /= seed_cells
    /\ world.cells /= pre_cells

\* The synchronous Life step on a whole grid: every cell by LifeRule on the
\* live neighbours it has in `cells`.
LifeStep(cells, size) ==
    [cx \in DOMAIN cells |->
        [cy \in DOMAIN cells[cx] |->
            [cells[cx][cy] EXCEPT
                !.alive = LifeRule(cells[cx][cy].alive,
                                   LiveAround(cells, size, cx, cy))]]]

Reverse(seq) == [i \in 1..Len(seq) |-> seq[Len(seq) + 1 - i]]

\* Every entry of `entries` written into w, first to last.
RECURSIVE CommitAll(_, _)
CommitAll(w, entries) ==
    IF entries = <<>> THEN w
    ELSE CommitAll(CommitOne(w, Head(entries)), Tail(entries))

\* The cell the pass would be evaluating now if it ran its loops from the
\* last cell to the first.
MirrorCell == <<world.size.x - 1 - tick_x, world.size.y - 1 - tick_y>>

\* C13: the cells and changed flag a tick leaves are a function of the grid
\* S it started from (the Life step of S, and whether that differs from S),
\* and neither order within the pass matters: a cell evaluated at any other
\* moment of the pass (here the cell a reversed loop would be on) gets the
\* state it gets from S, and the buffered writes still to do, done in the
\* opposite order, leave the same grid.
C13_Determinism ==
    /\ AfterTick =>
          /\ world.cells = LifeStep(pre_cells, world.size)
          /\ world.changed = (LifeStep(pre_cells, world.size) /= pre_cells)
    /\ (pc = "eval" /\ tick_x < world.size.x /\ tick_y < world.size.y) =>
          /\ Indexable(world.cells, MirrorCell[1], MirrorCell[2])
          /\ ~LookupPanics(world.cells[MirrorCell[1]][MirrorCell[2]], world)
          /\ determine_next_state(
                 world.cells[MirrorCell[1]][MirrorCell[2]], world)
                = LifeStep(pre_cells, world.size)
                     [MirrorCell[1]][MirrorCell[2]].alive
    /\ pc = "commit" =>
          /\ \A i, j \in 1..Len(new_states) :
                i /= j => <<new_states[i][1], new_states[i][2]>>
                             /= <<new_states[j][1], new_states[j][2]>>
          /\ CommitAll(world, Reverse(new_states)).cells
                = LifeStep(pre_cells, world.size)
          /\ did_change = (LifeStep(pre_cells, world.size) /= pre_cells)

\* The commit loop is part way: a write is done and at least two remain, so
\* there is an order to swap, and the written cell neighbours one to come.
C13_Witness ==
    /\ pc = "commit"
    /\ world.cells /= pre_cells
    /\ Len(new_states) >= 2
    /\ \E q \in Positions(world.size) :
          /\ world.cells[q[1]][q[2]].alive /= pre_cells[q[1]][q[2]].alive
          /\ <<new_states[1][1], new_states[1][2]>>
                \in MooreInGrid(world.size, q[1], q[2])

\* The synchronous Life step applied n times.
RECURSIVE LifeIter(_, _, _)
LifeIter(cells, size, n) ==
    IF n <= 0 THEN cells ELSE LifeIter(LifeStep(cells, size), size, n - 1)

\* C14: whenever draw_ui reads the world, its cells are the Life step
\* applied world.frames times to the cells this world was constructed with,
\* and no buffered write is outstanding: the grid drawn is wholly at
\* generation world.frames.
C14_NoMixedGenerations ==
    pc = "draw" =>
        /\ new_states = <<>>
        /\ world.frames = ticks
        /\ world.cells = LifeIter(seed_cells, world.size, world.frames)

\* draw_ui is about to draw generation 2, and generations 0, 1 and 2 are
\* three different grids.
C14_Witness ==
    /\ pc = "draw"
    /\ loop_action = "Continue"
    /\ milliseconds = 10
    /\ world.frames = 2
    /\ world.changed
    /\ world.cells /= pre_cells
    /\ world.cells /= seed_cells
    /\ pre_cells /= seed_cells
    /\ Cardinality(LiveSet(seed_cells, world.size)) >= 3

\* C15: the frame delay starts at 10 and is never below 10; the sleep uses
\* that same delay; SlowDown adds 10; SpeedUp subtracts 10 from a delay of
\* 20 or more and leaves a delay of 10 at 10; nothing else changes the delay;
\* and milliseconds - 10 is never computed with milliseconds below 10.
C15_FrameDelayFloor ==
    /\ [](/\ milliseconds >= 10
          /\ sleep_duration = milliseconds
          /\ pc /= "underflow"
          /\ (pc = "match" /\ loop_action = "SpeedUp") =>
                ~U64SubUnderflows(milliseconds, 10))
    /\ [][/\ (pc = "match" /\ loop_action = "SlowDown") =>
                milliseconds' = milliseconds + 10
          /\ (pc = "match" /\ loop_action = "SpeedUp") =>
                milliseconds' = IF milliseconds >= 20
                                THEN milliseconds - 10
                                ELSE 10
          /\ (pc /= "match" \/ loop_action \notin {"SlowDown", "SpeedUp"})
                => milliseconds' = milliseconds]_vars

\* The first action of the run was SpeedUp, at the starting delay of 10, and
\* the delay is still 10.
C15_Witness ==
    /\ pc = "tick"
    /\ loop_action = "SpeedUp"
    /\ milliseconds = 10
    /\ sleep_duration = 10
    /\ world.frames = 1
    /\ ticks = 1

\* C16: the step taken on Restart leaves a world of the size asked for at
\* the prompt, which is the size of the world it replaces, with frames 0 and
\* changed false, every column and row present, every cell carrying its own
\* position and a liveness; the delay, the sleep duration and world_size are
\* as before; no pass is under way and no buffered write is left over.
C16_Restart ==
    [][(pc = "match" /\ loop_action = "Restart") =>
          /\ world_size' = world_size
          /\ world'.size = world_size
          /\ world'.size = world.size
          /\ world'.frames = 0
          /\ world'.changed = FALSE
          /\ DOMAIN world'.cells = 0..(world_size.x - 1)
          /\ \A cx \in DOMAIN world'.cells :
                /\ DOMAIN world'.cells[cx] = 0..(world_size.y - 1)
                /\ \A cy \in DOMAIN world'.cells[cx] :
                      /\ world'.cells[cx][cy].coordinate = Vector(cx, cy)
                      /\ world'.cells[cx][cy].alive \in BOOLEAN
          /\ milliseconds' = milliseconds
          /\ sleep_duration' = sleep_duration
          /\ new_states' = <<>>
          /\ seed_cells' = world'.cells
          /\ pc' = "tick"]_vars

\* Restart has just replaced a world, after the delay had been raised to 20:
\* the new 3x2 world is at frame 0 with live cells and the delay is still 20.
C16_Witness ==
    /\ pc = "tick"
    /\ loop_action = "Restart"
    /\ world.frames = 0
    /\ ~world.changed
    /\ world.size = Vector(3, 2)
    /\ milliseconds = 20
    /\ sleep_duration = 20
    /\ LiveSet(world.cells, world.size) /= {}

C18_QuiescenceAbsorbing ==
    /\ []((pc \in {"eval", "commit"} /\ ticks >= 1 /\ ~world.changed) =>
            /\ new_states = <<>>
            /\ world.cells = pre_cells
            /\ pc = "commit" => ~did_change)
    /\ [][(pc = "commit" /\ pc' = "draw" /\ ticks >= 1 /\ ~world.changed)
             => /\ ~world'.changed
                /\ world'.cells = world.cells
                /\ world'.cells = pre_cells
                /\ world'.frames = world.frames + 1]_vars

\* The second pass on a world with live cells, the first having changed
\* nothing, has evaluated every cell and buffered nothing.
C18_Witness ==
    /\ pc = "commit"
    /\ ticks = 1
    /\ world.frames = 1
    /\ ~world.changed
    /\ new_states = <<>>
    /\ LiveSet(world.cells, world.size) /= {}

\* C19: in every state of a constructed world the cell stored at
\* cells[x][y] has coordinate (x, y); no step changes the coordinate of a
\* stored cell; and the coordinates the cell under evaluation looks up are
\* exactly the positions of the grid next to its place in storage.
C19_CoordinateConsistency ==
    /\ [](Constructed =>
            \A cx \in DOMAIN world.cells :
               \A cy \in DOMAIN world.cells[cx] :
                  world.cells[cx][cy].coordinate = Vector(cx, cy))
    /\ []((pc = "eval" /\ tick_x < world.size.x /\ tick_y < world.size.y) =>
            LET lk == LookupCoordinates(world.cells[tick_x][tick_y], world)
            IN  {<<lk[i].x, lk[i].y>> : i \in 1..Len(lk)}
                   = MooreInGrid(world.size, tick_x, tick_y))
    /\ [][Constructed =>
            /\ DOMAIN world'.cells = DOMAIN world.cells
            /\ \A cx \in DOMAIN world.cells :
                  /\ DOMAIN world'.cells[cx] = DOMAIN world.cells[cx]
                  /\ \A cy \in DOMAIN world.cells[cx] :
                        world'.cells[cx][cy].coordinate
                           = world.cells[cx][cy].coordinate]_vars

\* The commit loop has written a cell of a world that is not square and
\* more writes are to come.
C19_Witness ==
    /\ pc = "commit"
    /\ world.size.x /= world.size.y
    /\ world.size.x >= 2
    /\ world.size.y >= 2
    /\ world.cells /= pre_cells
    /\ new_states /= <<>>

====
